---- MODULE Spec2Model ----
(***************************************************************************)
(* Model of the tg-ws-relay per-connection relay engine.                   *)
(*                                                                         *)
(*   src/src/server.ts            gate, cleanup, timers, forwarding        *)
(*   src/src/upstream/connect.ts  connectUpstream and its idle timer       *)
(*   src/unnamed/part_000         util/backpressure.ts                     *)
(*   src/README.md:158-253        config.ts                                *)
(*                                                                         *)
(* One connection is followed from the "connection" event of the           *)
(* WebSocketServer to the end of its life.  Every socket or timer callback *)
(* runs to completion, so each callback is one action.  Time is a discrete *)
(* count of units; a timer holds the units left before it fires.           *)
(***************************************************************************)
EXTENDS Integers, Sequences, FiniteSets, TLC

VARIABLES
  config,      \* the immutable configuration object (config.ts)
  phase,       \* position of the connection handler
  request,     \* the request the handler was called with
  conn,        \* the closure variables of the connection handler
  downstream,  \* the client-facing WebSocket
  upstream,    \* the WebSocket returned by connectUpstream
  log,         \* what the connection did: calls made, frames sent, log lines
  server       \* the HTTP server and the process around the connection

vars == <<config, phase, request, conn, downstream, upstream, log, server>>

(***************************************************************************)
(* Bounds of the model.                                                    *)
(***************************************************************************)
ClientIdleTimeout == 2     \* config.clientIdleTimeoutMs, in time units
UpstreamIdleTimeout == 2   \* config.upstreamIdleTimeoutMs, in time units
PingInterval == 1          \* config.pingIntervalMs, in time units
MaxBufferedBytes == 1      \* config.maxBufferedBytes
MaxDownFrames == 3         \* binary frames the client sends
MaxUpFrames == 2           \* binary frames the target sends
MaxCount == 2              \* observation counters saturate here

FrameBytes == {1}

Null == -1                 \* a timer variable holding null
Expired == -2              \* a timer handle whose callback has run

Min(a, b) == IF a < b THEN a ELSE b
Count(n) == Min(n + 1, MaxCount)

(***************************************************************************)
(* Configuration and requests.                                             *)
(***************************************************************************)
NoToken == "undefined"
NoOrigin == "undefined"

Origins == {NoOrigin, "https://web.telegram.org", "https://evil.com"}
Tokens == {NoToken, "secret123", "wrong"}
Hosts == {"venus.web.telegram.org", "telegram.org.evil.com"}
Protocols == {"wss:", "http:"}
Patterns == {"*.web.telegram.org"}

Configs ==
  [allowedOrigins : {{}, {"https://web.telegram.org"}},
   token : {NoToken, "secret123"},
   allowedUpstreamHostPatterns : SUBSET Patterns]

\* The compiled pattern ^.*\.web\.telegram\.org$ applied to a hostname.
PatternTest(pattern, hostname) ==
  pattern = "*.web.telegram.org" /\ hostname = "venus.web.telegram.org"

\* The upstream query parameter: absent, not a URL, or a URL.
UpstreamParams ==
  {[kind |-> "missing", protocol |-> "wss:", hostname |-> "venus.web.telegram.org"],
   [kind |-> "invalid", protocol |-> "wss:", hostname |-> "venus.web.telegram.org"]}
  \cup [kind : {"url"}, protocol : Protocols, hostname : Hosts]

Requests ==
  [upstream : UpstreamParams, origin : Origins, token : Tokens,
   urlThrows : BOOLEAN, connectThrows : BOOLEAN]

NoRequest ==
  [upstream |-> [kind |-> "missing", protocol |-> "wss:",
                 hostname |-> "venus.web.telegram.org"],
   origin |-> NoOrigin, token |-> NoToken,
   urlThrows |-> FALSE, connectThrows |-> FALSE]

\* Mutant: an absent Origin header is let through.
validateOrigin_absentPasses(origin) ==
  IF config.allowedOrigins = {} THEN TRUE
  ELSE IF origin = NoOrigin THEN TRUE
  ELSE origin \in config.allowedOrigins

validateOrigin(origin) ==
  IF config.allowedOrigins = {} THEN TRUE
  ELSE IF origin = NoOrigin THEN FALSE
  ELSE origin \in config.allowedOrigins

\* Mutant: a request without a token is let through.
validateToken_missingPasses(providedToken) ==
  IF config.token = NoToken THEN TRUE
  ELSE providedToken = NoToken \/ providedToken = config.token

validateToken(providedToken) ==
  IF config.token = NoToken THEN TRUE
  ELSE providedToken = config.token

\* Mutant: an empty pattern list allows every host.
GateCode_failOpen(req) ==
  IF req.upstream.kind = "missing" THEN 4002
  ELSE IF req.upstream.kind = "invalid" THEN 4002
  ELSE IF req.upstream.protocol # "wss:" /\ req.upstream.protocol # "ws:" THEN 4003
  ELSE IF config.allowedUpstreamHostPatterns # {}
          /\ ~(\E p \in config.allowedUpstreamHostPatterns :
                  PatternTest(p, req.upstream.hostname)) THEN 4004
  ELSE IF ~validateOrigin(req.origin) THEN 4000
  ELSE IF ~validateToken(req.token) THEN 4001
  ELSE 0

\* Mutant: the protocol of the upstream URL is not checked.
GateCode_anyProtocol(req) ==
  IF req.upstream.kind = "missing" THEN 4002
  ELSE IF req.upstream.kind = "invalid" THEN 4002
  ELSE IF config.allowedUpstreamHostPatterns # {}
          /\ ~(\E p \in config.allowedUpstreamHostPatterns :
                  PatternTest(p, req.upstream.hostname)) THEN 4004
  ELSE IF config.allowedUpstreamHostPatterns = {} THEN 4004
  ELSE IF ~validateOrigin(req.origin) THEN 4000
  ELSE IF ~validateToken(req.token) THEN 4001
  ELSE 0

\* The close code of the first failing check of the handler, 0 when the
\* request passes them all.
GateCode(req) ==
  IF req.upstream.kind = "missing" THEN 4002
  ELSE IF req.upstream.kind = "invalid" THEN 4002
  ELSE IF req.upstream.protocol # "wss:" /\ req.upstream.protocol # "ws:" THEN 4003
  ELSE IF config.allowedUpstreamHostPatterns # {}
          /\ ~(\E p \in config.allowedUpstreamHostPatterns :
                  PatternTest(p, req.upstream.hostname)) THEN 4004
  ELSE IF config.allowedUpstreamHostPatterns = {} THEN 4004
  ELSE IF ~validateOrigin(req.origin) THEN 4000
  ELSE IF ~validateToken(req.token) THEN 4001
  ELSE 0

(***************************************************************************)
(* The ws sockets, as far as the relay uses them.                          *)
(***************************************************************************)
NewSocket(state) ==
  [readyState |-> state,
   bufferedAmount |-> 0,
   paused |-> FALSE,       \* pause() was called and resume() not since
   destroyed |-> FALSE,    \* the TCP socket is gone: no further frames
   errored |-> FALSE,      \* the error event was emitted
   aborted |-> FALSE,      \* the handshake was aborted: error and close follow
   rejected |-> FALSE,     \* the handshake got a response other than 101
   closeSent |-> 0,        \* code of the close frame sent, 0 if none
   callbacks |-> 0]        \* callbacks of send() that ws has yet to call

\* ws.close(code): starts the closing handshake of an open socket.
wsClose(sock, code) ==
  IF sock.readyState = "OPEN"
    THEN [sock EXCEPT !.readyState = "CLOSING", !.closeSent = code]
    ELSE sock

\* ws.terminate(): destroys the socket without a close frame.
wsTerminate(sock) ==
  IF sock.readyState = "CLOSED" THEN sock
  ELSE IF sock.readyState = "CONNECTING"
    THEN [sock EXCEPT !.readyState = "CLOSING", !.destroyed = TRUE,
                      !.aborted = TRUE]
  ELSE [sock EXCEPT !.readyState = "CLOSING", !.destroyed = TRUE]

\* ws.send(data, options, callback): ws calls the callback once, later.
wsSend(sock, bytes) ==
  [sock EXCEPT !.bufferedAmount = @ + bytes, !.callbacks = @ + 1]

\* ws.pause() and ws.resume() do nothing on a connecting or closed socket.
wsPause(sock) ==
  IF sock.readyState \in {"CONNECTING", "CLOSED"} THEN sock
  ELSE [sock EXCEPT !.paused = TRUE]

wsResume(sock) ==
  IF sock.readyState \in {"CONNECTING", "CLOSED"} THEN sock
  ELSE [sock EXCEPT !.paused = FALSE]

\* Whether the socket can still deliver a frame, ping or pong event.
Receiving(sock) ==
  /\ sock.readyState \in {"OPEN", "CLOSING"}
  /\ ~sock.destroyed
  /\ ~sock.paused

\* Codes a close event can carry when the peer ends the connection.
CloseCodes == {1001, 1005, 1006}

(***************************************************************************)
(* The connection closure.  Operators take and return the record           *)
(* [conn, downstream, upstream, log], so that a handler is the composition *)
(* of the calls it makes.                                                  *)
(***************************************************************************)
NoConn ==
  [closed |-> FALSE,
   downstreamIdleTimer |-> Null,
   pingTimer |-> Null,
   idleTimer |-> Null,       \* the idle timer of connectUpstream
   downstreamAlive |-> TRUE,
   pendingMessages |-> <<>>,
   stats |-> [bytesDownstreamToUpstream |-> 0, bytesUpstreamToDownstream |-> 0],
   downstreamBackpressure |-> [isPaused |-> FALSE, totalBytes |-> 0],
   upstreamBackpressure |-> [isPaused |-> FALSE, totalBytes |-> 0]]

NoLog ==
  [closeCode |-> 0,          \* code of downstream.close() outside cleanup
   connectCalls |-> 0,       \* calls of connectUpstream
   closedLogs |-> 0,         \* "Connection closed" lines written
   cleanupCode |-> 0,        \* arguments of the cleanup that wrote it
   cleanupReason |-> "",
   timerCancels |-> 0,       \* times cleanup cancelled the two timers
   downstreamOps |-> 0,      \* close/terminate calls of cleanup, per socket
   upstreamOps |-> 0,
   downstreamOp |-> "none",
   upstreamOp |-> "none",
   recvDown |-> 0,           \* binary frames received from downstream
   recvUp |-> 0,             \* binary frames received from upstream
   sentUp |-> <<>>,          \* ids of the frames passed to upstream.send
   sentDown |-> 0,           \* frames passed to downstream.send
   flushes |-> 0,            \* runs of the flush loop
   upstreamOpened |-> FALSE, \* the open event of upstream was emitted
   pinged |-> FALSE,       \* downstream.ping() was called
   pongSincePing |-> FALSE,  \* a pong arrived since the last ping
   pingWhilePaused |-> FALSE, \* downstream has been paused since that ping
   downstreamSilent |-> 0,   \* time since downstream's last frame/ping/pong
   upstreamSilent |-> 0,     \* the same for upstream, since it opened
   upstreamIdleExpired |-> FALSE,
   lastSignal |-> [upstream |-> "none", downstream |-> "none"],
                             \* last pause()/resume() call made for a direction
   redundantSignal |-> FALSE, \* a call repeated the one before it
   sendErrors |-> [upstream |-> 0, downstream |-> 0]]
                             \* error lines of the send callbacks, per socket

World == [conn |-> conn, downstream |-> downstream, upstream |-> upstream,
          log |-> log]

Commit(w) ==
  /\ conn' = w.conn
  /\ downstream' = w.downstream
  /\ upstream' = w.upstream
  /\ log' = w.log

\* Mutant: the timer is armed one unit too long.
resetDownstreamIdleTimer_late(w) ==
  [w EXCEPT !.conn.downstreamIdleTimer = ClientIdleTimeout + 1]

resetDownstreamIdleTimer(w) ==
  [w EXCEPT !.conn.downstreamIdleTimer = ClientIdleTimeout]

resetIdleTimer(w) ==
  [w EXCEPT !.conn.idleTimer = UpstreamIdleTimeout]

\* The close and error handlers of connectUpstream.
clearIdleTimer(w) ==
  IF w.conn.idleTimer # Null THEN [w EXCEPT !.conn.idleTimer = Null] ELSE w

\* The effects of cleanup past its guard, with the code given to close().
closeBoth(w, code, reason, sendCode) ==
  LET dsOpen == w.downstream.readyState = "OPEN"
      usOpen == w.upstream.readyState = "OPEN"
  IN [w EXCEPT
        !.conn.closed = TRUE,
        !.log.closedLogs = Count(@),
        !.log.cleanupCode = code,
        !.log.cleanupReason = reason,
        !.conn.downstreamIdleTimer = Null,
        !.conn.pingTimer = Null,
        !.log.timerCancels = Count(@),
        !.downstream = IF dsOpen THEN wsClose(@, sendCode) ELSE wsTerminate(@),
        !.log.downstreamOp = IF dsOpen THEN "close" ELSE "terminate",
        !.log.downstreamOps = Count(@),
        !.upstream = IF usOpen THEN wsClose(@, sendCode) ELSE wsTerminate(@),
        !.log.upstreamOp = IF usOpen THEN "close" ELSE "terminate",
        !.log.upstreamOps = Count(@)]

\* Mutant: no guard on the closed flag.
cleanup_unguarded(w, code, reason) ==
  closeBoth(w, code, reason, IF code = 1005 \/ code = 1006 THEN 1000 ELSE code)

\* Mutant: the code of the trigger is passed on as it is.
cleanup_rawCode(w, code, reason) ==
  IF w.conn.closed THEN w ELSE closeBoth(w, code, reason, code)

\* Mutant: cleanup leaves the upstream socket alone.
cleanup_leavesUpstream(w, code, reason) ==
  IF w.conn.closed THEN w
  ELSE
    LET safeCode == IF code = 1005 \/ code = 1006 THEN 1000 ELSE code
        dsOpen == w.downstream.readyState = "OPEN"
    IN [w EXCEPT
          !.conn.closed = TRUE,
          !.log.closedLogs = Count(@),
          !.log.cleanupCode = code,
          !.log.cleanupReason = reason,
          !.conn.downstreamIdleTimer = Null,
          !.conn.pingTimer = Null,
          !.log.timerCancels = Count(@),
          !.downstream = IF dsOpen THEN wsClose(@, safeCode) ELSE wsTerminate(@),
          !.log.downstreamOp = IF dsOpen THEN "close" ELSE "terminate",
          !.log.downstreamOps = Count(@)]

cleanup(w, code, reason) ==
  IF w.conn.closed THEN w
  ELSE
    LET safeCode == IF code = 1005 \/ code = 1006 THEN 1000 ELSE code
        dsOpen == w.downstream.readyState = "OPEN"
        usOpen == w.upstream.readyState = "OPEN"
    IN [w EXCEPT
          !.conn.closed = TRUE,
          !.log.closedLogs = Count(@),
          !.log.cleanupCode = code,
          !.log.cleanupReason = reason,
          !.conn.downstreamIdleTimer = Null,
          !.conn.pingTimer = Null,
          !.log.timerCancels = Count(@),
          !.downstream = IF dsOpen THEN wsClose(@, safeCode) ELSE wsTerminate(@),
          !.log.downstreamOp = IF dsOpen THEN "close" ELSE "terminate",
          !.log.downstreamOps = Count(@),
          !.upstream = IF usOpen THEN wsClose(@, safeCode) ELSE wsTerminate(@),
          !.log.upstreamOp = IF usOpen THEN "close" ELSE "terminate",
          !.log.upstreamOps = Count(@)]

\* opposite.pause() and opposite.resume(), as called for a direction; the
\* opposite socket of direction "upstream" is downstream, and conversely.
pauseOpposite(w, direction) ==
  LET w1 == [w EXCEPT
               !.log.redundantSignal = @ \/ w.log.lastSignal[direction] = "pause",
               !.log.lastSignal[direction] = "pause"]
  IN IF direction = "upstream"
       THEN [w1 EXCEPT !.downstream = wsPause(@)]
       ELSE [w1 EXCEPT !.upstream = wsPause(@)]

resumeOpposite(w, direction) ==
  LET w1 == [w EXCEPT
               !.log.redundantSignal = @ \/ w.log.lastSignal[direction] # "pause",
               !.log.lastSignal[direction] = "resume"]
  IN IF direction = "upstream"
       THEN [w1 EXCEPT !.downstream = wsResume(@),
                       !.log.pingWhilePaused = FALSE]
       ELSE [w1 EXCEPT !.upstream = wsResume(@)]

\* direction names the receiver: "upstream" is checkBackpressure(upstream,
\* upstreamBackpressure, downstream), "downstream" the converse.
checkBackpressure(w, direction) ==
  IF direction = "upstream"
    THEN IF w.upstream.bufferedAmount > MaxBufferedBytes
            /\ ~w.conn.upstreamBackpressure.isPaused
           THEN pauseOpposite(
                  [w EXCEPT !.conn.upstreamBackpressure.isPaused = TRUE],
                  direction)
           ELSE w
    ELSE IF w.downstream.bufferedAmount > MaxBufferedBytes
            /\ ~w.conn.downstreamBackpressure.isPaused
           THEN pauseOpposite(
                  [w EXCEPT !.conn.downstreamBackpressure.isPaused = TRUE],
                  direction)
           ELSE w

\* Mutant: the resume is signalled whenever the buffer is below half the
\* threshold.
handleDrain_noFlagCheck(w, direction) ==
  IF direction = "upstream"
    THEN IF 2 * w.upstream.bufferedAmount < MaxBufferedBytes
           THEN resumeOpposite(
                  [w EXCEPT !.conn.upstreamBackpressure.isPaused = FALSE],
                  direction)
           ELSE w
    ELSE IF 2 * w.downstream.bufferedAmount < MaxBufferedBytes
           THEN resumeOpposite(
                  [w EXCEPT !.conn.downstreamBackpressure.isPaused = FALSE],
                  direction)
           ELSE w

\* buffered < maxBufferedBytes * 0.5, over the integers.
handleDrain(w, direction) ==
  IF direction = "upstream"
    THEN IF w.conn.upstreamBackpressure.isPaused
            /\ 2 * w.upstream.bufferedAmount < MaxBufferedBytes
           THEN resumeOpposite(
                  [w EXCEPT !.conn.upstreamBackpressure.isPaused = FALSE],
                  direction)
           ELSE w
    ELSE IF w.conn.downstreamBackpressure.isPaused
            /\ 2 * w.downstream.bufferedAmount < MaxBufferedBytes
           THEN resumeOpposite(
                  [w EXCEPT !.conn.downstreamBackpressure.isPaused = FALSE],
                  direction)
           ELSE w

(***************************************************************************)
(* The handlers registered by the connection handler (server.ts) and by    *)
(* connectUpstream (connect.ts, registered first, so it runs first).       *)
(***************************************************************************)
\* Mutant: a non-binary frame is handled like a binary one.
onDownstreamMessage_forwardsText(w, isBinary, frame) ==
  LET w1 == [w EXCEPT !.conn.stats.bytesDownstreamToUpstream = @ + frame.bytes]
      w2 == resetDownstreamIdleTimer(w1)
  IN IF w2.upstream.readyState = "OPEN"
       THEN checkBackpressure(
              [w2 EXCEPT !.upstream = wsSend(@, frame.bytes),
                         !.log.sentUp = Append(@, frame.id)],
              "upstream")
     ELSE IF w2.upstream.readyState = "CONNECTING"
       THEN [w2 EXCEPT !.conn.pendingMessages = Append(@, frame)]
     ELSE w2

\* Mutant: a frame is queued whenever upstream is not open.
onDownstreamMessage_queuesUnlessOpen(w, isBinary, frame) ==
  IF ~isBinary THEN w
  ELSE
    LET w1 == [w EXCEPT !.conn.stats.bytesDownstreamToUpstream = @ + frame.bytes]
        w2 == resetDownstreamIdleTimer(w1)
    IN IF w2.upstream.readyState = "OPEN"
         THEN checkBackpressure(
                [w2 EXCEPT !.upstream = wsSend(@, frame.bytes),
                           !.log.sentUp = Append(@, frame.id)],
                "upstream")
       ELSE [w2 EXCEPT !.conn.pendingMessages = Append(@, frame)]

\* downstream.on("message"); frame is [id, bytes].
onDownstreamMessage(w, isBinary, frame) ==
  IF ~isBinary THEN w
  ELSE
    LET w1 == [w EXCEPT !.conn.stats.bytesDownstreamToUpstream = @ + frame.bytes]
        w2 == resetDownstreamIdleTimer(w1)
    IN IF w2.upstream.readyState = "OPEN"
         THEN checkBackpressure(
                [w2 EXCEPT !.upstream = wsSend(@, frame.bytes),
                           !.log.sentUp = Append(@, frame.id)],
                "upstream")
       ELSE IF w2.upstream.readyState = "CONNECTING"
         THEN [w2 EXCEPT !.conn.pendingMessages = Append(@, frame)]
       ELSE w2

onDownstreamPong(w) ==
  resetDownstreamIdleTimer([w EXCEPT !.conn.downstreamAlive = TRUE])

onDownstreamPing(w) == resetDownstreamIdleTimer(w)

onDownstreamClose(w, code) == cleanup(w, code, "Downstream closed")

onDownstreamError(w) == cleanup(w, 1011, "Downstream error")

\* Mutant: the flush loop walks the buffer from its newest frame.
RECURSIVE sendAll_newestFirst(_, _)
sendAll_newestFirst(w, messages) ==
  IF messages = <<>> THEN w
  ELSE LET last == messages[Len(messages)]
       IN sendAll_newestFirst(
            [w EXCEPT !.upstream = wsSend(@, last.bytes),
                      !.log.sentUp = Append(@, last.id)],
            SubSeq(messages, 1, Len(messages) - 1))

\* The flush loop sends every buffered frame and clears the buffer.
RECURSIVE sendAll(_, _)
sendAll(w, messages) ==
  IF messages = <<>> THEN w
  ELSE sendAll([w EXCEPT !.upstream = wsSend(@, Head(messages).bytes),
                         !.log.sentUp = Append(@, Head(messages).id)],
               Tail(messages))

\* Mutant: the buffer is not cleared after the flush.
onUpstreamOpen_keepsBuffer(w) ==
  LET w1 == resetIdleTimer(w)
  IN IF Len(w1.conn.pendingMessages) > 0
       THEN [sendAll(w1, w1.conn.pendingMessages) EXCEPT !.log.flushes = Count(@)]
       ELSE w1

\* upstream.on("open"): connect.ts arms the idle timer, server.ts flushes.
onUpstreamOpen(w) ==
  LET w1 == resetIdleTimer(w)
  IN IF Len(w1.conn.pendingMessages) > 0
       THEN [sendAll(w1, w1.conn.pendingMessages) EXCEPT
               !.conn.pendingMessages = <<>>,
               !.log.flushes = Count(@)]
       ELSE w1

\* upstream.on("message"): connect.ts resets the idle timer for any frame.
onUpstreamMessage(w, isBinary, bytes) ==
  LET w1 == resetIdleTimer(w)
  IN IF ~isBinary THEN w1
     ELSE
       LET w2 == [w1 EXCEPT !.conn.stats.bytesUpstreamToDownstream = @ + bytes]
       IN IF w2.downstream.readyState = "OPEN"
            THEN checkBackpressure(
                   [w2 EXCEPT !.downstream = wsSend(@, bytes),
                              !.log.sentDown = @ + 1],
                   "downstream")
            ELSE w2

\* Mutant: a failed send ends the connection.
onSendCallback_tearsDown(w, socket, error) ==
  IF error
    THEN cleanup([w EXCEPT !.log.sendErrors[socket] = @ + 1],
                 1011, "Send error")
    ELSE w

\* The callback given to send() by the message handler of downstream, by
\* the flush loop and by the message handler of upstream; socket names the
\* socket of the send.  The three differ in the text of the log line.
onSendCallback(w, socket, error) ==
  IF error
    THEN [w EXCEPT !.log.sendErrors[socket] = @ + 1]
    ELSE w

\* upstream.on("unexpected-response"): the handler writes a log line.  With
\* a listener registered ws emits no error for the response and leaves the
\* socket to the listener.
onUpstreamUnexpectedResponse(w) == w

onUpstreamPing(w) == resetIdleTimer(w)

onUpstreamPong(w) == resetIdleTimer(w)

onUpstreamClose(w, code) == cleanup(clearIdleTimer(w), code, "Upstream closed")

onUpstreamError(w) == cleanup(clearIdleTimer(w), 1011, "Upstream error")

\* Mutant: a missing pong is only noticed, the connection is kept.
onPingTimer_noTimeout(w) ==
  IF ~w.conn.downstreamAlive
    THEN w
    ELSE [w EXCEPT !.conn.downstreamAlive = FALSE,
                   !.log.pinged = TRUE,
                   !.log.pongSincePing = FALSE,
                   !.log.pingWhilePaused = w.downstream.paused]

\* The setInterval callback of pingTimer.
onPingTimer(w) ==
  IF ~w.conn.downstreamAlive
    THEN cleanup(w, 1000, "Ping timeout")
    ELSE [w EXCEPT !.conn.downstreamAlive = FALSE,
                   !.log.pinged = TRUE,
                   !.log.pongSincePing = FALSE,
                   !.log.pingWhilePaused = w.downstream.paused]

\* The setTimeout callback of downstreamIdleTimer.
onDownstreamIdleTimer(w) == cleanup(w, 1000, "Idle timeout")

\* The setTimeout callback of idleTimer in connectUpstream.
onIdleTimer(w) ==
  [w EXCEPT !.upstream = wsTerminate(@), !.log.upstreamIdleExpired = TRUE]

(***************************************************************************)
(* Initial states.                                                         *)
(***************************************************************************)
InitConnection ==
  /\ server = [listening |-> TRUE, exited |-> FALSE]
  /\ phase = "Listening"
  /\ request = NoRequest
  /\ conn = NoConn
  /\ downstream = NewSocket("OPEN")
  /\ upstream = NewSocket("NONE")
  /\ log = NoLog

\* The relay under the configuration of a protected deployment.
Init ==
  /\ config = [allowedOrigins |-> {"https://web.telegram.org"},
               token |-> "secret123",
               allowedUpstreamHostPatterns |-> Patterns]
  /\ InitConnection

\* The gate under every configuration.
InitGate ==
  /\ config \in Configs
  /\ InitConnection

(***************************************************************************)
(* Actions.                                                                *)
(***************************************************************************)
\* No callback runs in a process that has exited.
Running == ~server.exited

Admitted == phase = "Admitted" /\ Running

\* wss.on("connection"): gate, connectUpstream, timers, handlers.
Connection(req) ==
  /\ server.listening
  /\ phase = "Listening"
  /\ request' = req
  /\ UNCHANGED <<config, server>>
  /\ IF req.urlThrows
       THEN /\ phase' = "Failed"
            /\ downstream' = wsClose(downstream, 1011)
            /\ log' = [log EXCEPT !.closeCode = 1011]
            /\ UNCHANGED <<conn, upstream>>
     ELSE IF GateCode(req) # 0
       THEN /\ phase' = "Rejected"
            /\ downstream' = wsClose(downstream, GateCode(req))
            /\ log' = [log EXCEPT !.closeCode = GateCode(req)]
            /\ UNCHANGED <<conn, upstream>>
     ELSE IF req.connectThrows
       THEN /\ phase' = "Failed"
            /\ downstream' = wsClose(downstream, 1011)
            /\ log' = [log EXCEPT !.closeCode = 1011, !.connectCalls = Count(@)]
            /\ UNCHANGED <<conn, upstream>>
     ELSE /\ phase' = "Admitted"
          /\ upstream' = NewSocket("CONNECTING")
          /\ conn' = [NoConn EXCEPT !.downstreamIdleTimer = ClientIdleTimeout,
                                    !.pingTimer = PingInterval]
          /\ log' = [log EXCEPT !.connectCalls = Count(@)]
          /\ UNCHANGED downstream

DownstreamMessage(isBinary, bytes) ==
  /\ Admitted
  /\ Receiving(downstream)
  /\ isBinary => log.recvDown < MaxDownFrames
  /\ LET frame == [id |-> log.recvDown + 1, bytes |-> bytes]
         w == [World EXCEPT !.log.downstreamSilent = 0,
                            !.log.recvDown = IF isBinary THEN @ + 1 ELSE @]
     IN Commit(onDownstreamMessage(w, isBinary, frame))
  /\ UNCHANGED <<config, phase, request, server>>

DownstreamPong ==
  /\ Admitted
  /\ Receiving(downstream)
  /\ Commit(onDownstreamPong([World EXCEPT !.log.downstreamSilent = 0,
                                           !.log.pongSincePing = TRUE]))
  /\ UNCHANGED <<config, phase, request, server>>

DownstreamPing ==
  /\ Admitted
  /\ Receiving(downstream)
  /\ Commit(onDownstreamPing([World EXCEPT !.log.downstreamSilent = 0]))
  /\ UNCHANGED <<config, phase, request, server>>

\* The close event of downstream; a destroyed socket reports 1006.  Only an
\* admitted connection has a handler for it.
DownstreamClose(code) ==
  /\ Running
  /\ phase # "Listening"
  /\ downstream.readyState # "CLOSED"
  /\ downstream.destroyed => code = 1006
  /\ LET w == [World EXCEPT !.downstream.readyState = "CLOSED"]
     IN Commit(IF Admitted THEN onDownstreamClose(w, code) ELSE w)
  /\ UNCHANGED <<config, phase, request, server>>

\* The error event of downstream; ws then closes the socket.
DownstreamError ==
  /\ Admitted
  /\ downstream.readyState \in {"OPEN", "CLOSING"}
  /\ ~downstream.destroyed
  /\ ~downstream.errored
  /\ Commit(onDownstreamError(
       [World EXCEPT !.downstream.readyState = "CLOSING",
                     !.downstream.destroyed = TRUE,
                     !.downstream.errored = TRUE]))
  /\ UNCHANGED <<config, phase, request, server>>

DownstreamDrain(left) ==
  /\ Admitted
  /\ downstream.readyState \in {"OPEN", "CLOSING"}
  /\ ~downstream.destroyed
  /\ left <= downstream.bufferedAmount
  /\ Commit(handleDrain([World EXCEPT !.downstream.bufferedAmount = left],
                        "downstream"))
  /\ UNCHANGED <<config, phase, request, server>>

UpstreamOpen ==
  /\ Admitted
  /\ upstream.readyState = "CONNECTING"
  /\ ~upstream.rejected
  /\ Commit(onUpstreamOpen([World EXCEPT !.upstream.readyState = "OPEN",
                                         !.log.upstreamOpened = TRUE,
                                         !.log.upstreamSilent = 0]))
  /\ UNCHANGED <<config, phase, request, server>>

\* The target answers the handshake with a response other than 101.
UpstreamUnexpectedResponse ==
  /\ Admitted
  /\ upstream.readyState = "CONNECTING"
  /\ ~upstream.rejected
  /\ Commit(onUpstreamUnexpectedResponse(
       [World EXCEPT !.upstream.rejected = TRUE]))
  /\ UNCHANGED <<config, phase, request, server>>

\* A failed or aborted handshake: ws emits error and close back to back.
UpstreamHandshakeFailure ==
  /\ Admitted
  /\ upstream.readyState = "CONNECTING" \/ upstream.aborted
  /\ upstream.readyState # "CLOSED"
  /\ LET w1 == onUpstreamError(
                 [World EXCEPT !.upstream.readyState = "CLOSING",
                               !.upstream.destroyed = TRUE,
                               !.upstream.errored = TRUE])
         w2 == onUpstreamClose([w1 EXCEPT !.upstream.readyState = "CLOSED"], 1006)
     IN Commit(w2)
  /\ UNCHANGED <<config, phase, request, server>>

UpstreamMessage(isBinary, bytes) ==
  /\ Admitted
  /\ Receiving(upstream)
  /\ isBinary => log.recvUp < MaxUpFrames
  /\ Commit(onUpstreamMessage(
       [World EXCEPT !.log.upstreamSilent = 0,
                     !.log.recvUp = IF isBinary THEN @ + 1 ELSE @],
       isBinary, bytes))
  /\ UNCHANGED <<config, phase, request, server>>

UpstreamPing ==
  /\ Admitted
  /\ Receiving(upstream)
  /\ Commit(onUpstreamPing([World EXCEPT !.log.upstreamSilent = 0]))
  /\ UNCHANGED <<config, phase, request, server>>

UpstreamPong ==
  /\ Admitted
  /\ Receiving(upstream)
  /\ Commit(onUpstreamPong([World EXCEPT !.log.upstreamSilent = 0]))
  /\ UNCHANGED <<config, phase, request, server>>

UpstreamClose(code) ==
  /\ Admitted
  /\ upstream.readyState \in {"OPEN", "CLOSING"}
  /\ ~upstream.aborted
  /\ upstream.destroyed => code = 1006
  /\ Commit(onUpstreamClose([World EXCEPT !.upstream.readyState = "CLOSED"], code))
  /\ UNCHANGED <<config, phase, request, server>>

UpstreamError ==
  /\ Admitted
  /\ upstream.readyState \in {"OPEN", "CLOSING"}
  /\ ~upstream.destroyed
  /\ ~upstream.errored
  /\ Commit(onUpstreamError(
       [World EXCEPT !.upstream.readyState = "CLOSING",
                     !.upstream.destroyed = TRUE,
                     !.upstream.errored = TRUE]))
  /\ UNCHANGED <<config, phase, request, server>>

UpstreamDrain(left) ==
  /\ Admitted
  /\ upstream.readyState \in {"OPEN", "CLOSING"}
  /\ ~upstream.destroyed
  /\ left <= upstream.bufferedAmount
  /\ Commit(handleDrain([World EXCEPT !.upstream.bufferedAmount = left],
                        "upstream"))
  /\ UNCHANGED <<config, phase, request, server>>

\* ws calls a send callback once the frame is written, with an error when
\* the write failed.
DownstreamSendCallback(error) ==
  /\ Admitted
  /\ downstream.callbacks > 0
  /\ Commit(onSendCallback([World EXCEPT !.downstream.callbacks = @ - 1],
                            "downstream", error))
  /\ UNCHANGED <<config, phase, request, server>>

UpstreamSendCallback(error) ==
  /\ Admitted
  /\ upstream.callbacks > 0
  /\ Commit(onSendCallback([World EXCEPT !.upstream.callbacks = @ - 1],
                            "upstream", error))
  /\ UNCHANGED <<config, phase, request, server>>

\* The TCP connection of downstream ends, by the end of the closing
\* handshake or because the client drops it; ws emits the close event later.
DownstreamSocketEnd ==
  /\ Running
  /\ phase # "Listening"
  /\ downstream.readyState \in {"OPEN", "CLOSING"}
  /\ ~downstream.destroyed
  /\ downstream' = [downstream EXCEPT !.readyState = "CLOSING",
                                      !.destroyed = TRUE]
  /\ UNCHANGED <<config, phase, request, conn, upstream, log, server>>

\* process.on("SIGTERM") and process.on("SIGINT"): close(1000) on every
\* socket in wss.clients, then server.close(callback).
Signal ==
  /\ Running
  /\ downstream' = IF phase # "Listening" /\ downstream.readyState # "CLOSED"
                     THEN wsClose(downstream, 1000)
                     ELSE downstream
  /\ server' = [server EXCEPT !.listening = FALSE]
  /\ UNCHANGED <<config, phase, request, conn, upstream, log>>

\* The connections the HTTP server still counts: server.close() calls back
\* when the listener has stopped and none is left.
ConnectionsEnded ==
  \/ phase = "Listening"
  \/ downstream.readyState = "CLOSED"
  \/ downstream.destroyed

\* The callback of server.close(): process.exit(0).
ServerClosed ==
  /\ Running
  /\ ~server.listening
  /\ ConnectionsEnded
  /\ server' = [server EXCEPT !.exited = TRUE]
  /\ UNCHANGED <<config, phase, request, conn, downstream, upstream, log>>

\* Whether the timer can fire now.  On the clock a timer fires when no time
\* is left on it.  Off the clock the three durations are configuration
\* values in any ratio, so every armed timer can be the next one to fire.
Due(timer, clocked) == IF clocked THEN timer = 0 ELSE timer >= 0

\* setInterval re-arms the timer before the callback runs.
PingTimer(clocked) ==
  /\ Admitted
  /\ Due(conn.pingTimer, clocked)
  /\ Commit(onPingTimer([World EXCEPT !.conn.pingTimer = PingInterval]))
  /\ UNCHANGED <<config, phase, request, server>>

DownstreamIdleTimer(clocked) ==
  /\ Admitted
  /\ Due(conn.downstreamIdleTimer, clocked)
  /\ Commit(onDownstreamIdleTimer(
       [World EXCEPT !.conn.downstreamIdleTimer = Expired]))
  /\ UNCHANGED <<config, phase, request, server>>

IdleTimer(clocked) ==
  /\ Admitted
  /\ Due(conn.idleTimer, clocked)
  /\ Commit(onIdleTimer([World EXCEPT !.conn.idleTimer = Expired]))
  /\ UNCHANGED <<config, phase, request, server>>

\* One unit of time passes; a timer that is due fires first.
Elapse(timer) == IF timer > 0 THEN timer - 1 ELSE timer

Tick ==
  /\ Admitted
  /\ conn.pingTimer # 0
  /\ conn.downstreamIdleTimer # 0
  /\ conn.idleTimer # 0
  /\ conn' = [conn EXCEPT !.pingTimer = Elapse(@),
                          !.downstreamIdleTimer = Elapse(@),
                          !.idleTimer = Elapse(@)]
  /\ log' = [log EXCEPT
               !.downstreamSilent = Min(@ + 1, ClientIdleTimeout + 1),
               !.upstreamSilent = Min(@ + 1, UpstreamIdleTimeout + 1)]
  /\ UNCHANGED <<config, phase, request, downstream, upstream, server>>

\* The relay: every event of both sockets, timers firing in any order.  The
\* callbacks of send() run under SpecSend.
Next ==
  \/ \E req \in Requests : Connection(req)
  \/ \E isBinary \in BOOLEAN, bytes \in FrameBytes :
       DownstreamMessage(isBinary, bytes)
  \/ DownstreamPong
  \/ DownstreamPing
  \/ \E code \in CloseCodes : DownstreamClose(code)
  \/ DownstreamError
  \/ \E left \in 0..MaxUpFrames : DownstreamDrain(left)
  \/ UpstreamOpen
  \/ UpstreamUnexpectedResponse
  \/ UpstreamHandshakeFailure
  \/ \E isBinary \in BOOLEAN, bytes \in FrameBytes :
       UpstreamMessage(isBinary, bytes)
  \/ UpstreamPing
  \/ UpstreamPong
  \/ \E code \in CloseCodes : UpstreamClose(code)
  \/ UpstreamError
  \/ \E left \in 0..MaxDownFrames : UpstreamDrain(left)
  \/ PingTimer(FALSE)
  \/ DownstreamIdleTimer(FALSE)
  \/ IdleTimer(FALSE)

Spec == Init /\ [][Next]_vars

\* The relay on a clock: the timers run down together, one unit at a time.
\* The target is heard through text frames, pings and pongs, which reset the
\* idle timer of connectUpstream as a binary frame does.
NextTime ==
  \/ \E req \in Requests : Connection(req)
  \/ \E isBinary \in BOOLEAN, bytes \in FrameBytes :
       DownstreamMessage(isBinary, bytes)
  \/ DownstreamPong
  \/ DownstreamPing
  \/ \E code \in CloseCodes : DownstreamClose(code)
  \/ DownstreamError
  \/ UpstreamOpen
  \/ UpstreamHandshakeFailure
  \/ \E bytes \in FrameBytes : UpstreamMessage(FALSE, bytes)
  \/ UpstreamPing
  \/ UpstreamPong
  \/ \E code \in CloseCodes : UpstreamClose(code)
  \/ UpstreamError
  \/ PingTimer(TRUE)
  \/ DownstreamIdleTimer(TRUE)
  \/ IdleTimer(TRUE)
  \/ Tick

SpecTime == Init /\ [][NextTime]_vars

\* The relay under a shutdown signal, with the events that end a connection
\* and no frame traffic.
NextShutdown ==
  \/ \E req \in Requests : Connection(req)
  \/ Signal
  \/ ServerClosed
  \/ DownstreamSocketEnd
  \/ \E code \in CloseCodes : DownstreamClose(code)
  \/ DownstreamError
  \/ UpstreamOpen
  \/ UpstreamHandshakeFailure
  \/ \E code \in CloseCodes : UpstreamClose(code)
  \/ UpstreamError
  \/ PingTimer(FALSE)
  \/ DownstreamIdleTimer(FALSE)
  \/ IdleTimer(FALSE)

SpecShutdown == Init /\ [][NextShutdown]_vars

\* The relay with the callbacks of send(): binary frames of both sides, the
\* events and timers that run cleanup, and no pings, pongs or drains.
NextSend ==
  \/ \E req \in Requests : Connection(req)
  \/ \E bytes \in FrameBytes : DownstreamMessage(TRUE, bytes)
  \/ \E error \in BOOLEAN : DownstreamSendCallback(error)
  \/ \E code \in CloseCodes : DownstreamClose(code)
  \/ DownstreamError
  \/ UpstreamOpen
  \/ UpstreamHandshakeFailure
  \/ \E bytes \in FrameBytes : UpstreamMessage(TRUE, bytes)
  \/ \E error \in BOOLEAN : UpstreamSendCallback(error)
  \/ \E code \in CloseCodes : UpstreamClose(code)
  \/ UpstreamError
  \/ PingTimer(FALSE)
  \/ DownstreamIdleTimer(FALSE)

SpecSend == Init /\ [][NextSend]_vars

\* The gate under every configuration, with the events that end a
\* connection and no frame traffic.
NextGate ==
  \/ \E req \in Requests : Connection(req)
  \/ \E code \in CloseCodes : DownstreamClose(code)
  \/ DownstreamError
  \/ UpstreamOpen
  \/ UpstreamHandshakeFailure
  \/ \E code \in CloseCodes : UpstreamClose(code)
  \/ UpstreamError
  \/ PingTimer(FALSE)
  \/ DownstreamIdleTimer(FALSE)
  \/ IdleTimer(FALSE)

SpecGate == InitGate /\ [][NextGate]_vars

(***************************************************************************)
(* Properties.                                                             *)
(***************************************************************************)
Ids(messages) == [i \in 1..Len(messages) |-> messages[i].id]

FirstIds(n) == [i \in 1..n |-> i]

SafeCode(code) == IF code \in {1005, 1006} THEN 1000 ELSE code

\* C1: the side effects of cleanup (the "Connection closed" line, the
\* cancelling of the two timers, close/terminate on each socket) happen
\* exactly once, at the first trigger, and a later trigger changes none of
\* them.
C1_CleanupOnce ==
  [][/\ log'.closedLogs <= 1
     /\ log'.timerCancels <= 1
     /\ log'.downstreamOps <= 1
     /\ log'.upstreamOps <= 1
     /\ conn'.closed =>
          /\ log'.closedLogs = 1
          /\ log'.timerCancels = 1
          /\ log'.downstreamOps = 1
          /\ log'.upstreamOps = 1
     /\ ~conn'.closed => log'.closedLogs = 0
     /\ conn.closed =>
          /\ conn'.closed
          /\ log'.cleanupCode = log.cleanupCode
          /\ log'.cleanupReason = log.cleanupReason
          /\ log'.downstreamOp = log.downstreamOp
          /\ log'.upstreamOp = log.upstreamOp
          /\ downstream'.closeSent = downstream.closeSent
          /\ upstream'.closeSent = upstream.closeSent
          /\ conn'.pingTimer = Null]_vars

\* Three triggers in a row: the ping timeout, then the close events of both
\* sockets.
C1_Witness ==
  /\ conn.closed
  /\ log.cleanupReason = "Ping timeout"
  /\ downstream.readyState = "CLOSED"
  /\ upstream.readyState = "CLOSED"
  /\ log.closedLogs = 1

\* C2: while upstream is connecting every binary frame from downstream is
\* in pendingMessages, in arrival order, and none was sent; the open event
\* sends exactly the buffered sequence and empties the buffer; the buffer
\* stays empty afterwards and the flush loop runs at most once.
C2_FlushInOrderOnce ==
  [][/\ upstream'.readyState = "CONNECTING" =>
          /\ Ids(conn'.pendingMessages) = FirstIds(log'.recvDown)
          /\ log'.sentUp = <<>>
     /\ (upstream.readyState = "CONNECTING" /\ upstream'.readyState = "OPEN") =>
          /\ log'.sentUp = Ids(conn.pendingMessages)
          /\ conn'.pendingMessages = <<>>
     /\ log'.upstreamOpened => conn'.pendingMessages = <<>>
     /\ log.upstreamOpened => log'.flushes = log.flushes
     /\ log'.flushes <= 1]_vars

C2_Witness ==
  /\ log.flushes = 1
  /\ log.sentUp = <<1, 2, 3>>
  /\ conn.pendingMessages = <<>>
  /\ upstream.readyState = "OPEN"

PassesUpstreamChecks(req) ==
  /\ req.upstream.kind = "url"
  /\ req.upstream.protocol \in {"ws:", "wss:"}
  /\ \E p \in config.allowedUpstreamHostPatterns :
       PatternTest(p, req.upstream.hostname)

OriginAllowed(req) ==
  config.allowedOrigins = {} \/ req.origin \in config.allowedOrigins

TokenValid(req) ==
  config.token = NoToken \/ req.token = config.token

Handled == phase # "Listening"

\* The handler ran without an exception (no catch block was entered).
NoThrow == ~request.urlThrows /\ ~request.connectThrows

\* C3, as stated: with no host pattern configured every handled request is
\* closed with 4004 (requests that make the handler throw left aside).
C3_Original ==
  (Handled /\ NoThrow /\ config.allowedUpstreamHostPatterns = {}) =>
     /\ log.closeCode = 4004
     /\ downstream.closeSent = 4004

\* C3, amended: with no host pattern configured no request is admitted and
\* connectUpstream is never called; a request whose upstream parameter is a
\* ws/wss URL is closed with 4004 whatever its host, origin and token.
C3_FailClosed ==
  (Handled /\ config.allowedUpstreamHostPatterns = {}) =>
     /\ phase \in {"Rejected", "Failed"}
     /\ log.connectCalls = 0
     /\ upstream.readyState = "NONE"
     /\ (/\ ~request.urlThrows
         /\ request.upstream.kind = "url"
         /\ request.upstream.protocol \in {"ws:", "wss:"}) =>
           /\ phase = "Rejected"
           /\ log.closeCode = 4004
           /\ downstream.closeSent = 4004

C3_Witness ==
  /\ config.allowedUpstreamHostPatterns = {}
  /\ phase = "Rejected"
  /\ request.upstream.hostname = "venus.web.telegram.org"
  /\ request.origin = "https://web.telegram.org"
  /\ request.token = "secret123"
  /\ downstream.closeSent = 4004

\* C4: connectUpstream is called only for a request that passes every check
\* of the gate; a rejected request has downstream closed with a gate code,
\* no upstream socket, no timer, no cleanup, and stays that way.
C4_RejectedNeverConnects ==
  /\ log.connectCalls > 0 =>
       /\ PassesUpstreamChecks(request)
       /\ OriginAllowed(request)
       /\ TokenValid(request)
  /\ (Handled /\ ~request.urlThrows
        /\ ~(PassesUpstreamChecks(request) /\ OriginAllowed(request)
               /\ TokenValid(request))) =>
       /\ phase = "Rejected"
       /\ log.closeCode \in {4000, 4001, 4002, 4003, 4004}
       /\ downstream.closeSent = log.closeCode
       /\ log.connectCalls = 0
       /\ upstream.readyState = "NONE"
       /\ conn = NoConn
       /\ log.closedLogs = 0

\* A rejected request whose socket has since closed.
C4_Witness ==
  /\ phase = "Rejected"
  /\ log.closeCode = 4003
  /\ downstream.readyState = "CLOSED"
  /\ conn = NoConn

ReachesOriginCheck(req) == ~req.urlThrows /\ PassesUpstreamChecks(req)

\* C5, as stated: with an empty allowlist no request fails the origin check;
\* with a non-empty one a request whose Origin is absent or not listed is
\* closed with 4000 and no upstream connection is attempted (requests that
\* make the handler throw left aside).
C5_Original ==
  (Handled /\ NoThrow) =>
    /\ config.allowedOrigins = {} => log.closeCode # 4000
    /\ (config.allowedOrigins # {} /\ request.origin \notin config.allowedOrigins) =>
         /\ log.closeCode = 4000
         /\ log.connectCalls = 0

\* C5, amended: the same for a request that reaches the origin check, that
\* is, whose upstream parameter passed the URL, protocol and host checks;
\* a request stopped by an earlier check is closed with that check's code.
C5_OriginRule ==
  Handled =>
    /\ config.allowedOrigins = {} => log.closeCode # 4000
    /\ (config.allowedOrigins # {} /\ request.origin \notin config.allowedOrigins) =>
         /\ log.connectCalls = 0
         /\ phase # "Admitted"
         /\ ReachesOriginCheck(request) =>
              /\ log.closeCode = 4000
              /\ downstream.closeSent = 4000

C5_Witness ==
  /\ phase = "Rejected"
  /\ config.allowedOrigins = {"https://web.telegram.org"}
  /\ request.origin = "https://evil.com"
  /\ downstream.closeSent = 4000
  /\ log.connectCalls = 0

ReachesTokenCheck(req) == ReachesOriginCheck(req) /\ OriginAllowed(req)

\* C6, as stated: with no token configured no request fails the token
\* check; with one configured a request whose token is missing or different
\* is closed with 4001 (requests that make the handler throw left aside).
C6_Original ==
  (Handled /\ NoThrow) =>
    /\ config.token = NoToken => log.closeCode # 4001
    /\ (config.token # NoToken /\ request.token # config.token) =>
         log.closeCode = 4001

\* C6, amended: the same for a request that reaches the token check, that
\* is, which passed the upstream and origin checks; no request with a
\* missing or different token is admitted.
C6_TokenRule ==
  Handled =>
    /\ config.token = NoToken => log.closeCode # 4001
    /\ (config.token # NoToken /\ request.token # config.token) =>
         /\ log.connectCalls = 0
         /\ phase # "Admitted"
         /\ ReachesTokenCheck(request) =>
              /\ log.closeCode = 4001
              /\ downstream.closeSent = 4001

C6_Witness ==
  /\ phase = "Rejected"
  /\ config.token = "secret123"
  /\ request.token = NoToken
  /\ downstream.closeSent = 4001

\* C7: in each direction, a step that forwards a frame and leaves the
\* receiver with more than the threshold buffered leaves the direction
\* paused, and a paused direction is resumed only by a step that leaves the
\* receiver with less than half the threshold buffered.
C7_Hysteresis ==
  [][/\ (Len(log'.sentUp) > Len(log.sentUp)
          /\ upstream'.bufferedAmount > MaxBufferedBytes) =>
            conn'.upstreamBackpressure.isPaused
     /\ (log'.sentDown > log.sentDown
          /\ downstream'.bufferedAmount > MaxBufferedBytes) =>
            conn'.downstreamBackpressure.isPaused
     /\ (conn.upstreamBackpressure.isPaused
          /\ ~conn'.upstreamBackpressure.isPaused) =>
            2 * upstream'.bufferedAmount < MaxBufferedBytes
     /\ (conn.downstreamBackpressure.isPaused
          /\ ~conn'.downstreamBackpressure.isPaused) =>
            2 * downstream'.bufferedAmount < MaxBufferedBytes]_vars

\* C8: a keepalive tick that fires after a ping with no pong since does
\* not re-arm and ping again: the connection is closed by that step.  The
\* cleanup with reason "Ping timeout" has code 1000, closes an open
\* downstream with 1000, and runs only when a ping was sent and no pong has
\* arrived since, whatever data frames and pings downstream sent meanwhile.
C8_PingTimeout ==
  [][/\ (conn.pingTimer = 0 /\ conn'.pingTimer # 0
          /\ log.pinged /\ ~log.pongSincePing) =>
            /\ conn'.closed
            /\ conn'.pingTimer = Null
     /\ (~conn.closed /\ conn'.closed
          /\ log'.cleanupReason = "Ping timeout") =>
            /\ conn.pingTimer = 0
            /\ log.pinged
            /\ ~log.pongSincePing
            /\ log'.cleanupCode = 1000
            /\ log'.downstreamOp = "close" => downstream'.closeSent = 1000
            /\ log'.upstreamOp = "close" => upstream'.closeSent = 1000]_vars

\* The timeout after the client sent a data frame and a ping, but no pong.
C8_Witness ==
  /\ log.cleanupReason = "Ping timeout"
  /\ downstream.closeSent = 1000
  /\ log.recvDown > 0
  /\ ~log.pongSincePing

\* C9: a connection that is not closed has heard from downstream within the
\* client idle duration, and an open upstream was heard from within the
\* upstream idle duration; the cleanup of the downstream idle timer has code
\* 1000; the upstream idle timer takes upstream out of OPEN, and the close
\* event that follows runs cleanup, which closes downstream with 1000.
C9_IdleTimeout ==
  Admitted =>
    /\ ~conn.closed =>
         /\ log.downstreamSilent <= ClientIdleTimeout
         /\ conn.downstreamIdleTimer + log.downstreamSilent <= ClientIdleTimeout
         /\ conn.downstreamIdleTimer >= 0
    /\ upstream.readyState = "OPEN" =>
         /\ log.upstreamSilent <= UpstreamIdleTimeout
         /\ conn.idleTimer + log.upstreamSilent <= UpstreamIdleTimeout
         /\ conn.idleTimer >= 0
    /\ log.cleanupReason = "Idle timeout" =>
         /\ log.cleanupCode = 1000
         /\ log.downstreamOp = "close" => downstream.closeSent = 1000
         /\ log.upstreamOp = "close" => upstream.closeSent = 1000
    /\ log.upstreamIdleExpired =>
         /\ upstream.readyState \in {"CLOSING", "CLOSED"}
         /\ upstream.readyState = "CLOSED" => conn.closed
         /\ log.cleanupReason = "Upstream closed" =>
              /\ log.cleanupCode = 1006
              /\ log.downstreamOp = "close" => downstream.closeSent = 1000

\* Both legs fell silent: the upstream timer terminated upstream, then the
\* downstream timer closed the connection.
C9_Witness ==
  /\ log.upstreamIdleExpired
  /\ log.cleanupReason = "Idle timeout"
  /\ log.downstreamSilent = ClientIdleTimeout
  /\ downstream.closeSent = 1000

\* C10: the step that runs cleanup closes a socket that is open with the
\* code of the trigger, 1000 standing in for 1005 and 1006, and terminates
\* a socket that is not open; no close frame carries 1005 or 1006.
C10_SafeCode ==
  [][/\ (~conn.closed /\ conn'.closed) =>
          /\ log'.downstreamOp \in {"close", "terminate"}
          /\ log'.upstreamOp \in {"close", "terminate"}
          /\ log'.downstreamOp = "close" =>
               /\ downstream.readyState = "OPEN"
               /\ downstream'.readyState = "CLOSING"
               /\ downstream'.closeSent = SafeCode(log'.cleanupCode)
          /\ log'.upstreamOp = "close" =>
               /\ upstream.readyState = "OPEN"
               /\ upstream'.readyState = "CLOSING"
               /\ upstream'.closeSent = SafeCode(log'.cleanupCode)
          /\ log'.downstreamOp = "terminate" =>
               /\ downstream'.closeSent = downstream.closeSent
               /\ (downstream'.readyState = "CLOSED" \/ downstream'.destroyed)
          /\ log'.upstreamOp = "terminate" =>
               /\ upstream'.closeSent = upstream.closeSent
               /\ (upstream'.readyState = "CLOSED" \/ upstream'.destroyed)
          /\ (upstream.readyState = "OPEN"
                /\ log'.cleanupReason \notin {"Upstream closed", "Upstream error"}) =>
               log'.upstreamOp = "close"
          /\ (downstream.readyState = "OPEN"
                /\ log'.cleanupReason \notin {"Downstream closed", "Downstream error"}) =>
               log'.downstreamOp = "close"
     /\ downstream'.closeSent \notin {1005, 1006}
     /\ upstream'.closeSent \notin {1005, 1006}]_vars

\* Downstream closed without a status code while upstream was open.
C10_Witness ==
  /\ conn.closed
  /\ log.cleanupCode = 1005
  /\ log.downstreamOp = "terminate"
  /\ log.upstreamOp = "close"
  /\ upstream.closeSent = 1000

\* C12: once cleanup has run none of the three timers of the connection is
\* armed, whatever is delivered afterwards.
C12_TimersCancelled ==
  conn.closed =>
    /\ conn.downstreamIdleTimer < 0
    /\ conn.pingTimer < 0
    /\ conn.idleTimer < 0

\* C13: closed never goes back to false, and once it is set no closure
\* variable of the connection handler changes: stats, pendingMessages, the
\* two backpressure records, downstreamAlive and the two timer handles keep
\* the value cleanup left (the idle timer of connectUpstream left aside).
C13_FrozenAfterClose ==
  [][conn.closed =>
       [conn' EXCEPT !.idleTimer = conn.idleTimer] = conn]_vars

\* C14: a step that delivers a non-binary frame leaves the idle timer of the
\* leg it came from armed with the full idle duration.
C14_TextFrameIsLiveness ==
  [][/\ (\E bytes \in FrameBytes : DownstreamMessage(FALSE, bytes)) =>
          conn'.downstreamIdleTimer = ClientIdleTimeout
     /\ (\E bytes \in FrameBytes : UpstreamMessage(FALSE, bytes)) =>
          conn'.idleTimer = UpstreamIdleTimeout]_vars

\* C15: a step that delivers a non-binary frame sends nothing to the other
\* leg and queues nothing, in every state of the connection; so the frames
\* sent or queued never outnumber the binary frames received.
C15_OnlyBinaryForwarded ==
  [][/\ (\E bytes \in FrameBytes : DownstreamMessage(FALSE, bytes)) =>
          /\ log'.sentUp = log.sentUp
          /\ conn'.pendingMessages = conn.pendingMessages
          /\ upstream' = upstream
          /\ conn'.stats = conn.stats
     /\ (\E bytes \in FrameBytes : UpstreamMessage(FALSE, bytes)) =>
          /\ log'.sentDown = log.sentDown
          /\ downstream' = downstream
          /\ conn'.stats = conn.stats
     /\ Len(log'.sentUp) + Len(conn'.pendingMessages) <= log'.recvDown
     /\ log'.sentDown <= log'.recvUp]_vars

\* A text frame of the client was the last thing heard from downstream (the
\* idle timer was not re-armed) while upstream was connecting: nothing is
\* queued.
C15_Witness ==
  /\ Admitted
  /\ upstream.readyState = "CONNECTING"
  /\ log.downstreamSilent = 0
  /\ conn.downstreamIdleTimer >= 0
  /\ conn.downstreamIdleTimer < ClientIdleTimeout
  /\ conn.pendingMessages = <<>>
  /\ log.sentUp = <<>>

\* C16: pendingMessages grows only by the binary frame that arrives while
\* upstream is CONNECTING; a binary frame that arrives while upstream is
\* OPEN is sent at once and not queued; one that arrives while upstream is
\* CLOSING or CLOSED is neither sent nor queued; the queue is empty in every
\* state after upstream has opened.
C16_QueueOnlyWhileConnecting ==
  [][/\ Len(conn'.pendingMessages) > Len(conn.pendingMessages) =>
          /\ upstream.readyState = "CONNECTING"
          /\ log'.recvDown = log.recvDown + 1
     /\ log'.recvDown = log.recvDown + 1 =>
          IF upstream.readyState = "CONNECTING"
            THEN /\ Ids(conn'.pendingMessages) =
                      Append(Ids(conn.pendingMessages), log'.recvDown)
                 /\ log'.sentUp = log.sentUp
          ELSE IF upstream.readyState = "OPEN"
            THEN /\ log'.sentUp = Append(log.sentUp, log'.recvDown)
                 /\ conn'.pendingMessages = conn.pendingMessages
          ELSE /\ log'.sentUp = log.sentUp
               /\ conn'.pendingMessages = conn.pendingMessages
     /\ log'.upstreamOpened => conn'.pendingMessages = <<>>]_vars

\* Frame 1 was queued and flushed, frame 2 sent at once, frame 3 dropped
\* after upstream had left OPEN.
C16_Witness ==
  /\ log.recvDown = 3
  /\ log.flushes = 1
  /\ log.sentUp = <<1, 2>>
  /\ upstream.readyState \in {"CLOSING", "CLOSED"}
  /\ conn.pendingMessages = <<>>

\* C17: no step that forwards frames into a receiver, the flush at upstream
\* open included, ends with the receiver's buffered bytes above the
\* threshold and the direction not paused.
C17_PauseAfterEveryForward ==
  [][/\ Len(log'.sentUp) > Len(log.sentUp) =>
          (upstream'.bufferedAmount > MaxBufferedBytes =>
             conn'.upstreamBackpressure.isPaused)
     /\ log'.sentDown > log.sentDown =>
          (downstream'.bufferedAmount > MaxBufferedBytes =>
             conn'.downstreamBackpressure.isPaused)
     /\ (upstream.readyState = "CONNECTING" /\ upstream'.readyState = "OPEN"
           /\ upstream'.bufferedAmount > MaxBufferedBytes) =>
          /\ conn'.upstreamBackpressure.isPaused
          /\ downstream'.paused \/ downstream'.readyState = "CLOSED"]_vars

\* C19: in each direction isPaused goes from false to true only in a step
\* that forwards a frame of that direction, with pause() called on the
\* opposite socket, and from true to false only in a drain step of the
\* receiver, with resume() called on the opposite socket; pause() and
\* resume() are called in no other step, so the calls of a direction
\* alternate, starting with pause(); the record of a direction changes only
\* in the message and drain steps of that direction.
C19_FlipsAlternate ==
  [][/\ ~log'.redundantSignal
     /\ (conn'.upstreamBackpressure # conn.upstreamBackpressure
           \/ log'.lastSignal.upstream # log.lastSignal.upstream) =>
          /\ conn'.upstreamBackpressure.isPaused # conn.upstreamBackpressure.isPaused
          /\ log'.lastSignal.upstream =
               IF conn'.upstreamBackpressure.isPaused THEN "pause" ELSE "resume"
          /\ conn'.upstreamBackpressure.isPaused =>
               /\ \E bytes \in FrameBytes : DownstreamMessage(TRUE, bytes)
               /\ downstream'.paused \/ downstream'.readyState = "CLOSED"
          /\ ~conn'.upstreamBackpressure.isPaused =>
               /\ \E left \in 0..MaxDownFrames : UpstreamDrain(left)
               /\ ~downstream'.paused \/ downstream'.readyState = "CLOSED"
          /\ conn'.downstreamBackpressure = conn.downstreamBackpressure
     /\ (conn'.downstreamBackpressure # conn.downstreamBackpressure
           \/ log'.lastSignal.downstream # log.lastSignal.downstream) =>
          /\ conn'.downstreamBackpressure.isPaused # conn.downstreamBackpressure.isPaused
          /\ log'.lastSignal.downstream =
               IF conn'.downstreamBackpressure.isPaused THEN "pause" ELSE "resume"
          /\ conn'.downstreamBackpressure.isPaused =>
               /\ \E bytes \in FrameBytes : UpstreamMessage(TRUE, bytes)
               /\ upstream'.paused \/ upstream'.readyState = "CLOSED"
          /\ ~conn'.downstreamBackpressure.isPaused =>
               /\ \E left \in 0..MaxUpFrames : DownstreamDrain(left)
               /\ ~upstream'.paused \/ upstream'.readyState = "CLOSED"
          /\ conn'.upstreamBackpressure = conn.upstreamBackpressure]_vars

\* The direction to upstream was paused and resumed while the direction to
\* downstream stayed paused.
C19_Witness ==
  /\ log.lastSignal.upstream = "resume"
  /\ ~conn.upstreamBackpressure.isPaused
  /\ ~downstream.paused
  /\ log.lastSignal.downstream = "pause"
  /\ conn.downstreamBackpressure.isPaused
  /\ upstream.paused

\* C18: a connection whose downstream is paused by backpressure is not
\* closed by the downstream idle timer, nor by the ping timeout of a ping
\* sent during the pause, and a paused upstream is not terminated by the
\* idle timer of connectUpstream.  (A pause begins in a message handler,
\* which has just reset the idle timer of the paused leg, so an idle timer
\* that fires during the pause has run for its whole duration within it.)
C18_PauseIsNotClose ==
  [][/\ (~conn.closed /\ conn'.closed
           /\ downstream.paused /\ conn.upstreamBackpressure.isPaused) =>
          /\ log'.cleanupReason # "Idle timeout"
          /\ log'.cleanupReason = "Ping timeout" => ~log.pingWhilePaused
     /\ (upstream.paused /\ conn.downstreamBackpressure.isPaused) =>
          log'.upstreamIdleExpired = log.upstreamIdleExpired]_vars

\* C20: a failed upstream handshake reaches the connection as an upstream
\* error: the step in which the handshake fails, be it by an error or by a
\* response other than 101, runs cleanup(1011, "Upstream error") unless the
\* connection is closed already, and leaves downstream no longer open; no
\* connection stays CONNECTING after its handshake has failed.
C20_HandshakeFailureSurfaces ==
  [][/\ (upstream.readyState = "CONNECTING"
           /\ (upstream'.errored \/ upstream'.rejected)
           /\ ~upstream.rejected) =>
          /\ conn'.closed
          /\ ~conn.closed =>
               /\ log'.cleanupCode = 1011
               /\ log'.cleanupReason = "Upstream error"
          /\ downstream'.readyState # "OPEN"
     /\ upstream'.rejected => upstream'.readyState # "CONNECTING"]_vars

\* C11: the step of a shutdown signal stops the listener and sends close
\* code 1000 to a client whose socket is open; the process exits only in a
\* later step, with the listener stopped; and when it exits an admitted
\* connection has gone through cleanup, so that close or terminate was
\* called on its upstream socket.
C11_GracefulShutdown ==
  [][/\ (server.listening /\ ~server'.listening) =>
          /\ ~server'.exited
          /\ (phase # "Listening" /\ downstream.readyState = "OPEN") =>
               /\ downstream'.readyState = "CLOSING"
               /\ downstream'.closeSent = 1000
     /\ (~server.exited /\ server'.exited) =>
          /\ ~server.listening
          /\ phase = "Admitted" =>
               /\ conn.closed
               /\ log.upstreamOps = 1
               /\ upstream.readyState # "OPEN"]_vars

StrictlyIncreasing(s) == \A i, j \in 1..Len(s) : i < j => s[i] < s[j]

\* C22: the frames passed to upstream.send, in the order of the calls, are
\* binary frames received from downstream in their order of arrival, none of
\* them twice; a frame still waiting in pendingMessages arrived after every
\* frame already sent and waits in its order of arrival, so that no later
\* frame is sent ahead of it.
C22_EndToEndOrder ==
  /\ StrictlyIncreasing(log.sentUp \o Ids(conn.pendingMessages))
  /\ \A i \in 1..Len(log.sentUp) : log.sentUp[i] \in 1..log.recvDown

\* Frames flushed at the open event, then a frame forwarded directly: the
\* pause for upstream is signalled by a direct forward only.
C22_Witness ==
  /\ log.flushes = 1
  /\ log.recvDown = MaxDownFrames
  /\ Len(log.sentUp) = MaxDownFrames
  /\ log.lastSignal["upstream"] = "pause"

\* C23: in every state in which cleanup has run neither socket is OPEN, and
\* no step taken after cleanup passes a frame to upstream.send or to
\* downstream.send, appends to pendingMessages or flushes it, or emits the
\* open event of upstream: a frame that arrives after cleanup is dropped.
C23_NothingAfterCleanup ==
  [][/\ conn'.closed =>
          /\ downstream'.readyState # "OPEN"
          /\ upstream'.readyState # "OPEN"
     /\ conn.closed =>
          /\ log'.sentUp = log.sentUp
          /\ log'.sentDown = log.sentDown
          /\ conn'.pendingMessages = conn.pendingMessages
          /\ log'.flushes = log.flushes
          /\ log'.upstreamOpened = log.upstreamOpened]_vars

\* The ping timeout ran cleanup on a connection whose upstream was open and
\* whose sockets had left OPEN for no other reason; a binary frame of each
\* side arrived afterwards and was neither sent nor queued.
C23_Witness ==
  /\ conn.closed
  /\ log.cleanupReason = "Ping timeout"
  /\ log.upstreamOpened
  /\ ~log.upstreamIdleExpired
  /\ log.recvDown > Len(log.sentUp) + Len(conn.pendingMessages)
  /\ log.recvUp > log.sentDown

\* A step in which ws calls a send callback.
SendCallbackRuns ==
  \/ downstream'.callbacks < downstream.callbacks
  \/ upstream'.callbacks < upstream.callbacks

\* C21: a step that runs a send callback, with or without an error, changes
\* nothing but the log line it writes: the closed flag, the timers,
\* pendingMessages, the statistics and both backpressure records keep their
\* values, neither socket is closed, terminated, paused or resumed, and
\* cleanup is not called.  The step in which cleanup runs is the close or
\* error event of a socket or the callback of the ping timer or of the
\* downstream idle timer.
C21_SendFailureOnlyLogged ==
  [][/\ SendCallbackRuns =>
          /\ conn' = conn
          /\ downstream' = [downstream EXCEPT !.callbacks = downstream'.callbacks]
          /\ upstream' = [upstream EXCEPT !.callbacks = upstream'.callbacks]
          /\ log' = [log EXCEPT !.sendErrors = log'.sendErrors]
     /\ (~conn.closed /\ conn'.closed) =>
          \/ \E code \in CloseCodes : DownstreamClose(code)
          \/ DownstreamError
          \/ \E code \in CloseCodes : UpstreamClose(code)
          \/ UpstreamError
          \/ UpstreamHandshakeFailure
          \/ PingTimer(FALSE)
          \/ DownstreamIdleTimer(FALSE)]_vars

\* Every send to upstream, of a flushed frame and of a frame forwarded
\* directly after the flush, and a send to downstream have failed, and the
\* connection is up with both sockets open.
C21_Witness ==
  /\ ~conn.closed
  /\ downstream.readyState = "OPEN"
  /\ upstream.readyState = "OPEN"
  /\ log.flushes = 1
  /\ log.lastSignal["upstream"] = "pause"
  /\ upstream.callbacks = 0
  /\ log.sendErrors["upstream"] = Len(log.sentUp)
  /\ log.sendErrors["downstream"] > 0

====
